---- MODULE Spec2Model ----
(***************************************************************************)
(* Model of migrate_artifactory_to_jfrog.py: the entity decoder, the two   *)
(* regular-expression extractors, the stage synthesizer and the main()     *)
(* driver that chains them.                                                *)
(*                                                                         *)
(* Text is modelled by TLA+ strings (TLC evaluates Len, SubSeq and \o on   *)
(* them); a character is a string of length 1.  The four non-ASCII glyphs  *)
(* of the templates cannot be written in a TLA+ string and are spelled     *)
(* [ok], [party], [x] and ->; each stays inside its own line.              *)
(***************************************************************************)
EXTENDS Integers, Sequences, FiniteSets, TLC

VARIABLES
    argc,            \* len(sys.argv): the script name plus the path arguments
    input_exists,    \* input_file.exists()
    pc,              \* position of main()
    exit_status,     \* process exit status once pc = "exited", -1 before
    input_text,      \* what input_file.read_text() returned
    content,         \* main's `content` buffer
    server_id,       \* locals of convert_pipeline, kept after it returns
    upload_pattern,
    upload_target,
    has_setup,
    has_ping,
    has_upload,
    has_publish,
    stages,
    converted,       \* main's `converted`
    writes           \* texts handed to output_file.write_text, in order

vars == <<argc, input_exists, pc, exit_status, input_text, content, server_id,
          upload_pattern, upload_target, has_setup, has_ping, has_upload,
          has_publish, stages, converted, writes>>

convVars == <<server_id, upload_pattern, upload_target, has_setup, has_ping,
              has_upload, has_publish, stages, converted>>

----------------------------------------------------------------------------
(* Python str primitives *)

Char(s, i) == SubSeq(s, i, i)

\* s[i-1:].startswith(sub), i 1-based (the first character is compared
\* before the whole slice is taken)
StartsWithAt(s, i, sub) ==
    /\ i >= 1
    /\ i + Len(sub) - 1 <= Len(s)
    /\ \/ sub = ""
       \/ /\ Char(s, i) = Char(sub, 1)
          /\ SubSeq(s, i, i + Len(sub) - 1) = sub

Least(P) == CHOOSE k \in P : \A j \in P : k <= j

\* s.find(sub, i-1) + 1: the first occurrence of sub at or after i, 0 if none
find(s, sub, i) ==
    LET P == {k \in i..(Len(s) - Len(sub) + 1) : StartsWithAt(s, k, sub)}
    IN  IF P = {} THEN 0 ELSE Least(P)

\* `sub in s`
In(sub, s) == find(s, sub, 1) # 0

\* s.replace(old, new): the occurrences of old found left to right, each
\* search resuming after the previous occurrence, replaced by new
RECURSIVE replace_from(_, _, _, _)
replace_from(s, i, old, new) ==
    LET j == find(s, old, i)
    IN  IF j = 0 THEN SubSeq(s, i, Len(s))
        ELSE SubSeq(s, i, j - 1) \o new \o replace_from(s, j + Len(old), old, new)

replace(s, old, new) == replace_from(s, 1, old, new)

\* '\n'.join(list)
RECURSIVE join(_, _)
join(sep, list) ==
    IF list = <<>> THEN ""
    ELSE IF Len(list) = 1 THEN list[1]
    ELSE list[1] \o sep \o join(sep, Tail(list))

----------------------------------------------------------------------------
(* decode_html_entities *)

\* mutant: the '&amp;' replacement is missing
decode_without_amp(text) ==
    LET c1 == replace(text, "&apos;", "'")
        c2 == replace(c1, "&quot;", "\"")
        c3 == replace(c2, "&gt;", ">")
        c4 == replace(c3, "&lt;", "<")
    IN  c4

\* mutant: '&amp;' is replaced first instead of last
decode_amp_first(text) ==
    LET c1 == replace(text, "&amp;", "&")
        c2 == replace(c1, "&apos;", "'")
        c3 == replace(c2, "&quot;", "\"")
        c4 == replace(c3, "&gt;", ">")
        c5 == replace(c4, "&lt;", "<")
    IN  c5

decode_html_entities(text) ==
    LET c1 == replace(text, "&apos;", "'")
        c2 == replace(c1, "&quot;", "\"")
        c3 == replace(c2, "&gt;", ">")
        c4 == replace(c3, "&lt;", "<")
        c5 == replace(c4, "&amp;", "&")
    IN  c5

----------------------------------------------------------------------------
(* re.search for the two patterns.  Both have the shape                    *)
(*   literal \s* punct \s* quote ([^quotes]+) quote                        *)
(* where neither greedy run can give a character back to what follows it,  *)
(* so the match attempt at a start position is deterministic.              *)

\* \s on the characters a TLA+ string can hold
IsSpace(c) == c \in {" ", "\t", "\n", "\r", "\f"}

RECURSIVE SkipSpaces(_, _)
SkipSpaces(s, i) ==
    IF i <= Len(s) /\ IsSpace(Char(s, i)) THEN SkipSpaces(s, i + 1) ELSE i

RECURSIVE SkipNot(_, _, _)
SkipNot(s, i, stop) ==
    IF i <= Len(s) /\ Char(s, i) \notin stop THEN SkipNot(s, i + 1, stop) ELSE i

NoMatch == [found |-> FALSE, group1 |-> ""]

\* the attempt of  literal\s*punct\s*[quotes]([^quotes]+)[quotes]  at i
MatchAt(s, i, literal, punct, quotes) ==
    LET b == SkipSpaces(s, i + Len(literal))
        c == SkipSpaces(s, b + 1)
        d == SkipNot(s, c + 1, quotes)
    IN  IF /\ StartsWithAt(s, i, literal)
           /\ b <= Len(s) /\ Char(s, b) = punct
           /\ c <= Len(s) /\ Char(s, c) \in quotes
           /\ d > c + 1
           /\ d <= Len(s)
        THEN [found |-> TRUE, group1 |-> SubSeq(s, c + 1, d - 1)]
        ELSE NoMatch

\* re.search: the match attempt at the leftmost start position that has one
re_search(s, literal, punct, quotes) ==
    LET P == {i \in 1..Len(s) : MatchAt(s, i, literal, punct, quotes).found}
    IN  IF P = {} THEN NoMatch ELSE MatchAt(s, Least(P), literal, punct, quotes)

extract_server_id(text) ==
    LET match == re_search(text, "Artifactory.server", "(", {"'", "\""})
    IN  IF match.found THEN match.group1 ELSE "ecosysjfrog"

\* mutant: the two fields fall back together unless both are found
extract_upload_spec_joint(text) ==
    LET pattern_match == re_search(text, "\"pattern\"", ":", {"\""})
        target_match == re_search(text, "\"target\"", ":", {"\""})
    IN  IF pattern_match.found /\ target_match.found
        THEN [pattern |-> pattern_match.group1, target |-> target_match.group1]
        ELSE [pattern |-> "*.txt", target |-> "repo/"]

extract_upload_spec(text) ==
    LET pattern_match == re_search(text, "\"pattern\"", ":", {"\""})
        target_match == re_search(text, "\"target\"", ":", {"\""})
    IN  [pattern |-> IF pattern_match.found THEN pattern_match.group1 ELSE "*.txt",
         target |-> IF target_match.found THEN target_match.group1 ELSE "repo/"]

----------------------------------------------------------------------------
(* convert_pipeline: the stage templates *)

\* mutant: 'c use' names the fallback server instead of the extracted one
ConfigureStageUsesFallback(sid, server_url, server_user) ==
       "        stage('Configure JFrog Server') {\n"
    \o "            steps {\n"
    \o "                script {\n"
    \o "                    echo '=== Configuring JFrog Server ==='\n"
    \o "                    jf 'config add " \o sid \o " --url=" \o server_url
           \o " --user=" \o server_user
           \o " --password=YOUR_PASSWORD --interactive=false'\n"
    \o "                    jf 'c use ecosysjfrog'\n"
    \o "                    echo '[ok] Server configured'\n"
    \o "                }\n"
    \o "            }\n"
    \o "        }"

ConfigureStage(sid, server_url, server_user) ==
       "        stage('Configure JFrog Server') {\n"
    \o "            steps {\n"
    \o "                script {\n"
    \o "                    echo '=== Configuring JFrog Server ==='\n"
    \o "                    jf 'config add " \o sid \o " --url=" \o server_url
           \o " --user=" \o server_user
           \o " --password=YOUR_PASSWORD --interactive=false'\n"
    \o "                    jf 'c use " \o sid \o "'\n"
    \o "                    echo '[ok] Server configured'\n"
    \o "                }\n"
    \o "            }\n"
    \o "        }"

PingStage ==
       "        \n"
    \o "        stage('Ping Artifactory') {\n"
    \o "            steps {\n"
    \o "                script {\n"
    \o "                    echo '=== Testing Artifactory Connection ==='\n"
    \o "                    jf 'rt ping'\n"
    \o "                    echo '[ok] Successfully connected to Artifactory!'\n"
    \o "                }\n"
    \o "            }\n"
    \o "        }"

UploadStage(pattern, target) ==
       "        \n"
    \o "        stage('Upload Artifact') {\n"
    \o "            steps {\n"
    \o "                script {\n"
    \o "                    echo '=== Creating and Uploading Artifact ==='\n"
    \o "                    \n"
    \o "                    // Create test file\n"
    \o "                    sh 'echo \"Build ${BUILD_NUMBER} - $(date)\" > artifactory-test-${BUILD_NUMBER}.txt'\n"
    \o "                    \n"
    \o "                    // Upload (converted from Artifactory plugin spec)\n"
    \o "                    jf 'rt u " \o pattern \o " " \o target \o "'\n"
    \o "                    \n"
    \o "                    echo '[ok] Successfully uploaded artifact!'\n"
    \o "                    echo \"Uploaded to: " \o target \o "\"\n"
    \o "                }\n"
    \o "            }\n"
    \o "        }"

PublishStage ==
       "        \n"
    \o "        stage('Publish Build Info') {\n"
    \o "            steps {\n"
    \o "                script {\n"
    \o "                    echo '=== Publishing Build Info ==='\n"
    \o "                    jf 'rt bp'\n"
    \o "                    echo '[ok] Build info published!'\n"
    \o "                }\n"
    \o "            }\n"
    \o "        }"

\* mutant: a legacy Setup stage is carried over when the input has one
SetupStage ==
       "        \n"
    \o "        stage('Setup Artifactory') {\n"
    \o "            steps {\n"
    \o "                script {\n"
    \o "                    echo '=== Setup ==='\n"
    \o "                }\n"
    \o "            }\n"
    \o "        }"

BuildStagesKeepsSetup(sid, pattern, target, setup, ping, upload, publish, server_url, server_user) ==
       <<ConfigureStage(sid, server_url, server_user)>>
    \o (IF setup THEN <<SetupStage>> ELSE <<>>)
    \o (IF ping THEN <<PingStage>> ELSE <<>>)
    \o (IF upload THEN <<UploadStage(pattern, target)>> ELSE <<>>)
    \o (IF publish THEN <<PublishStage>> ELSE <<>>)

\* mutant: the Upload stage is gated by the Ping flag
BuildStagesUploadOnPing(sid, pattern, target, setup, ping, upload, publish, server_url, server_user) ==
       <<ConfigureStage(sid, server_url, server_user)>>
    \o (IF ping THEN <<PingStage>> ELSE <<>>)
    \o (IF ping THEN <<UploadStage(pattern, target)>> ELSE <<>>)
    \o (IF publish THEN <<PublishStage>> ELSE <<>>)

\* mutant: the Publish stage is appended before the Upload stage
BuildStagesPublishFirst(sid, pattern, target, setup, ping, upload, publish, server_url, server_user) ==
       <<ConfigureStage(sid, server_url, server_user)>>
    \o (IF ping THEN <<PingStage>> ELSE <<>>)
    \o (IF publish THEN <<PublishStage>> ELSE <<>>)
    \o (IF upload THEN <<UploadStage(pattern, target)>> ELSE <<>>)

\* the `stages` list: stages = [] followed by the four appends
BuildStages(sid, pattern, target, setup, ping, upload, publish, server_url, server_user) ==
       <<ConfigureStage(sid, server_url, server_user)>>
    \o (IF ping THEN <<PingStage>> ELSE <<>>)
    \o (IF upload THEN <<UploadStage(pattern, target)>> ELSE <<>>)
    \o (IF publish THEN <<PublishStage>> ELSE <<>>)

\* the `converted` document: the text before the joined stages ...
DocumentHead(sid) ==
       "// MIGRATED FROM ARTIFACTORY PLUGIN TO JFROG PLUGIN\n"
    \o "// Original server ID: " \o sid \o "\n"
    \o "// \n"
    \o "// Conversion applied:\n"
    \o "// - Removed stage: Setup Artifactory\n"
    \o "// - Artifactory.server() -> jf 'config add' + 'c use'\n"
    \o "// - server.upload(spec) -> jf 'rt u pattern target'\n"
    \o "// - server.publishBuildInfo() -> jf 'rt bp'\n"
    \o "// - BuildInfo objects -> Removed (auto-managed)\n"
    \o "//\n"
    \o "// TODO: Replace YOUR_PASSWORD on line 24 with actual password\n"
    \o "\n"
    \o "pipeline {\n"
    \o "    agent any\n"
    \o "    \n"
    \o "    tools {\n"
    \o "        jfrog 'jfrog-cli'\n"
    \o "    }\n"
    \o "    \n"
    \o "    stages {\n"

\* ... and the text after them
DocumentTail ==
       "\n"
    \o "    }\n"
    \o "    \n"
    \o "    post {\n"
    \o "        success {\n"
    \o "            echo '[party] Pipeline completed successfully!'\n"
    \o "        }\n"
    \o "        failure {\n"
    \o "            echo '[x] Pipeline failed'\n"
    \o "        }\n"
    \o "    }\n"
    \o "}\n"

AssembleDocument(sid, stage_list) ==
    DocumentHead(sid) \o join("\n", stage_list) \o DocumentTail

DefaultServerUrl == "https://ecosysjfrog.jfrog.io"
DefaultServerUser == "agrasth"

\* convert_pipeline(content, server_url, server_user): its locals and result
convert_pipeline(text, server_url, server_user) ==
    LET sid == extract_server_id(text)
        spec == extract_upload_spec(text)
        setup == In("stage('Setup Artifactory')", text)
        ping == In("stage('Ping Artifactory')", text)
        upload == In("server.upload", text)
        publish == In("publishBuildInfo", text)
        stage_list == BuildStages(sid, spec.pattern, spec.target, setup, ping,
                                  upload, publish, server_url, server_user)
    IN  [server_id |-> sid,
         upload_pattern |-> spec.pattern,
         upload_target |-> spec.target,
         has_setup |-> setup,
         has_ping |-> ping,
         has_upload |-> upload,
         has_publish |-> publish,
         stages |-> stage_list,
         converted |-> AssembleDocument(sid, stage_list)]

----------------------------------------------------------------------------
(* The input files main() is run on: concatenations of a few fragments,    *)
(* one family of fragments per concern.                                    *)

MaxEntityPieces == 2
MaxMarkerPieces == 3
MaxServerPieces == 2
MaxUploadPieces == 2

RECURSIVE Concats(_, _)
Concats(F, n) ==
    IF n = 0 THEN {""}
    ELSE {""} \cup {f \o t : f \in F, t \in Concats(F, n - 1)}

EntityFragments ==
    {"&amp;", "&apos;", "&quot;", "&gt;", "&lt;",
     "amp;", "apos;", "quot;", "gt;", "lt;", "&", "x"}

MarkerFragments ==
    {"stage('Setup Artifactory')", "stage('Ping Artifactory')",
     "server.upload", "publishBuildInfo",
     "stage(&apos;Ping Artifactory&apos;)", "\n"}

ServerFragments ==
    {"Artifactory.server('s1')", "Artifactory.server(\"s2\")",
     "Artifactory.server(&apos;s1&apos;)", "Artifactory.server(&quot;s2&quot;)",
     "Artifactory.server \n(\t's 5\")", "Artifactory.server('')",
     "Artifactory.server('", "artifactory.server('s6')", "x"}

UploadFragments ==
    {"\"pattern\": \"*.zip\"", "\"target\": \"libs-release/\"",
     "\"pattern\":\"a.jar\"", "\"target\" :\n\"t2\"",
     "\"pattern\": \"\"", "\"target\": \"",
     "&quot;target&quot;: &quot;t3&quot;",
     "\"pattern\": \"stage('Ping Artifactory')\"", "server.upload"}

Texts ==
    Concats(EntityFragments, MaxEntityPieces)
    \cup Concats(MarkerFragments, MaxMarkerPieces)
    \cup Concats(ServerFragments, MaxServerPieces)
    \cup Concats(UploadFragments, MaxUploadPieces)

ArgCounts == {1, 2, 3, 4}

----------------------------------------------------------------------------
(* main() *)

Init ==
    /\ argc \in ArgCounts
    /\ input_exists \in BOOLEAN
    /\ pc = "check_args"
    /\ exit_status = -1
    /\ input_text = ""
    /\ content = ""
    /\ server_id = ""
    /\ upload_pattern = ""
    /\ upload_target = ""
    /\ has_setup = FALSE
    /\ has_ping = FALSE
    /\ has_upload = FALSE
    /\ has_publish = FALSE
    /\ stages = <<>>
    /\ converted = ""
    /\ writes = <<>>

\* if len(sys.argv) < 3: ... sys.exit(1)
CheckArgs ==
    /\ pc = "check_args"
    /\ IF argc < 3
       THEN pc' = "exited" /\ exit_status' = 1
       ELSE pc' = "check_exists" /\ exit_status' = exit_status
    /\ UNCHANGED <<argc, input_exists, input_text, content, convVars, writes>>

\* mutant: the message is printed but sys.exit(1) is missing
CheckExistsFallsThrough ==
    /\ pc = "check_exists"
    /\ pc' = "read"
    /\ UNCHANGED <<argc, input_exists, exit_status, input_text, content, convVars, writes>>

\* if not input_file.exists(): ... sys.exit(1)
CheckExists ==
    /\ pc = "check_exists"
    /\ IF ~input_exists
       THEN pc' = "exited" /\ exit_status' = 1
       ELSE pc' = "read" /\ exit_status' = exit_status
    /\ UNCHANGED <<argc, input_exists, input_text, content, convVars, writes>>

\* content = input_file.read_text()
ReadText ==
    /\ pc = "read"
    /\ \E t \in Texts :
        /\ input_text' = t
        /\ content' = t
    /\ pc' = "decode"
    /\ UNCHANGED <<argc, input_exists, exit_status, convVars, writes>>

\* read_text raises (the path is a directory, unreadable, not text): the
\* exception is not caught and the interpreter exits with status 1
ReadTextRaises ==
    /\ pc = "read"
    /\ pc' = "exited"
    /\ exit_status' = 1
    /\ UNCHANGED <<argc, input_exists, input_text, content, convVars, writes>>

\* mutant: convert_pipeline is handed the text as read
DecodeSkipped ==
    /\ pc = "decode"
    /\ pc' = "convert"
    /\ UNCHANGED <<argc, input_exists, exit_status, input_text, content, convVars, writes>>

\* content = decode_html_entities(content)
Decode ==
    /\ pc = "decode"
    /\ content' = decode_html_entities(content)
    /\ pc' = "convert"
    /\ UNCHANGED <<argc, input_exists, exit_status, input_text, convVars, writes>>

\* converted = convert_pipeline(content)
Convert ==
    /\ pc = "convert"
    /\ \E r \in {convert_pipeline(content, DefaultServerUrl, DefaultServerUser)} :
           /\ server_id' = r.server_id
           /\ upload_pattern' = r.upload_pattern
           /\ upload_target' = r.upload_target
           /\ has_setup' = r.has_setup
           /\ has_ping' = r.has_ping
           /\ has_upload' = r.has_upload
           /\ has_publish' = r.has_publish
           /\ stages' = r.stages
           /\ converted' = r.converted
    /\ pc' = "write"
    /\ UNCHANGED <<argc, input_exists, exit_status, input_text, content, writes>>

\* output_file.write_text(converted)
WriteText ==
    /\ pc = "write"
    /\ writes' = Append(writes, converted)
    /\ pc' = "report"
    /\ UNCHANGED <<argc, input_exists, exit_status, input_text, content, convVars>>

\* write_text raises (the directory is missing, the path is not writable):
\* uncaught, exit status 1
WriteTextRaises ==
    /\ pc = "write"
    /\ pc' = "exited"
    /\ exit_status' = 1
    /\ UNCHANGED <<argc, input_exists, input_text, content, convVars, writes>>

\* the completion messages, then main returns and the script ends
Report ==
    /\ pc = "report"
    /\ pc' = "exited"
    /\ exit_status' = 0
    /\ UNCHANGED <<argc, input_exists, input_text, content, convVars, writes>>

Next ==
    \/ CheckArgs
    \/ CheckExists
    \/ ReadText
    \/ ReadTextRaises
    \/ Decode
    \/ Convert
    \/ WriteText
    \/ WriteTextRaises
    \/ Report

Spec == Init /\ [][Next]_vars

----------------------------------------------------------------------------
(* Claims about decode_html_entities *)

EntityNames == {"apos;", "quot;", "gt;", "lt;", "amp;"}
References == {"&" \o x : x \in EntityNames}

Contains(t, sub) == \E i \in 1..Len(t) : StartsWithAt(t, i, sub)

\* an ampersand reference directly followed by the rest of a reference
NestedReference(t) == \E x \in EntityNames : Contains(t, "&amp;" \o x)

\* main has just decoded: content = decode_html_entities(input_text)
Decoded == pc = "convert"

\* C1 as stated: decoding the decoded text again changes nothing, for every
\* input text.
C1_Idempotent == Decoded => decode_html_entities(content) = content

\* C1 as amended: decoding the decoded text again changes nothing exactly
\* when the input holds no '&amp;' directly followed by 'apos;', 'quot;',
\* 'gt;', 'lt;' or 'amp;'.
C1_IdempotentIffNoNestedReference ==
    Decoded =>
        ((decode_html_entities(content) = content) <=> ~NestedReference(input_text))

C1_Witness ==
    /\ Decoded
    /\ Contains(input_text, "&amp;")
    /\ ~NestedReference(input_text)
    /\ content # input_text
    /\ decode_html_entities(content) = content

\* the least position at or after i where one of the strings of Subs starts,
\* 0 if none does
FirstOfAny(t, Subs, i) ==
    LET P == {k \in i..Len(t) : \E q \in Subs : StartsWithAt(t, k, q)}
    IN  IF P = {} THEN 0 ELSE Least(P)

\* the character a reference stands for
Decoding(ref) ==
    CASE ref = "&apos;" -> "'"
      [] ref = "&quot;" -> "\""
      [] ref = "&gt;" -> ">"
      [] ref = "&lt;" -> "<"
      [] ref = "&amp;" -> "&"

\* one pass over the text, left to right from i, that replaces each of the
\* five references where it stands and copies everything else
RECURSIVE OnePass(_, _)
OnePass(t, i) ==
    LET j == FirstOfAny(t, References, i)
    IN  IF j = 0 THEN SubSeq(t, i, Len(t))
        ELSE LET ref == CHOOSE r \in References : StartsWithAt(t, j, r)
             IN  SubSeq(t, i, j - 1) \o Decoding(ref) \o OnePass(t, j + Len(ref))

\* C9: the decoder decodes one level only: every reference standing in the
\* input is replaced by its character, all other text is copied, and the
\* '&' a decoded '&amp;' leaves is not read as the start of a reference, so
\* '&amp;X;' becomes '&X;'.
C9_OneLevelOnly ==
    Decoded =>
        /\ content = OnePass(input_text, 1)
        /\ \A x \in EntityNames :
              input_text = "&amp;" \o x => content = "&" \o x

C9_Witness ==
    /\ Decoded
    /\ input_text = "&amp;apos;"
    /\ content = "&apos;"

----------------------------------------------------------------------------
(* Claims about main() *)

QuoteSpellings == {"'", "\"", "&apos;", "&quot;"}

\* the identifier of the server declaration that opens at position i of t,
\* Artifactory.server( quote S quote, the quotes in any spelling; "" if none
\* opens there or S holds a reference
DeclaredId(t, i) ==
    LET a == i + Len("Artifactory.server(")
        Q == {q \in QuoteSpellings : StartsWithAt(t, a, q)}
    IN  IF ~StartsWithAt(t, i, "Artifactory.server(") \/ Q = {} THEN ""
        ELSE LET b == a + Len(CHOOSE q \in Q : TRUE)
                 e == FirstOfAny(t, QuoteSpellings, b)
                 S == SubSeq(t, b, e - 1)
             IN  IF e = 0 \/ \E r \in References : Contains(S, r) THEN "" ELSE S

\* C7: main decodes before it extracts, so the first server declaration of
\* the input file gives its identifier as serverId whether its quotes are
\* written literally or as &apos; / &quot; references.
C7_EntityQuotedServerId ==
    pc = "write" =>
        LET i == find(input_text, "Artifactory.server", 1)
            S == DeclaredId(input_text, i)
        IN  (i # 0 /\ S # "") => server_id = S

C7_Witness ==
    /\ pc = "write"
    /\ StartsWithAt(input_text, 1, "Artifactory.server(&apos;s1&apos;)")
    /\ server_id = "s1"

\* C8: with fewer than two path arguments or a missing input file the run
\* ends with a non-zero status and never reaches the write step; the output
\* is written at most once, after both checks passed and with the conversion
\* of the decoded input; a run that wrote ends with status zero.
C8_NoWriteOnError ==
    /\ Len(writes) <= 1
    /\ argc - 1 < 2 => pc \in {"check_args", "exited"} /\ writes = <<>>
    /\ ~input_exists => pc \in {"check_args", "check_exists", "exited"} /\ writes = <<>>
    /\ (pc = "exited" /\ (argc - 1 < 2 \/ ~input_exists)) => exit_status # 0
    /\ writes # <<>> =>
          /\ argc - 1 >= 2 /\ input_exists
          /\ content = decode_html_entities(input_text)
          /\ writes[1] = converted
          /\ pc \in {"report", "exited"}
    /\ pc = "exited" => (exit_status = 0 <=> writes # <<>>)

C8_Witness ==
    /\ pc = "exited"
    /\ argc - 1 >= 2
    /\ ~input_exists
    /\ exit_status = 1
    /\ writes = <<>>

----------------------------------------------------------------------------
(* Claims about convert_pipeline.  A stage of the list is known by its     *)
(* header line, which precedes everything the templates interpolate.       *)

\* convert_pipeline has just returned
Converted == pc = "write"

\* the NAME of a block that opens with the line  stage('NAME') {
StageName(block) ==
    LET body == IF StartsWithAt(block, 1, "        \n")
                THEN SubSeq(block, 10, Len(block))
                ELSE block
        e == find(body, "') {\n", 16)
    IN  IF StartsWithAt(body, 1, "        stage('") /\ e # 0
        THEN SubSeq(body, 16, e - 1)
        ELSE ""

StageNames(list) == [k \in 1..Len(list) |-> StageName(list[k])]

HasStage(list, name) == \E k \in 1..Len(list) : StageName(list[k]) = name

\* the text of the document between `stages {` and the closing of the stage
\* container
StageText(doc, sid) ==
    SubSeq(doc, Len(DocumentHead(sid)) + 1, Len(doc) - Len(DocumentTail))

\* where block k of the list stands in the stage text when the blocks follow
\* one another in list order, a line break between two of them
RECURSIVE StageOffset(_, _)
StageOffset(list, k) ==
    IF k = 1 THEN 1 ELSE StageOffset(list, k - 1) + Len(list[k - 1]) + 1

\* block k of the list stands in the document, after the blocks before it
InDocument(list, k) ==
    StartsWithAt(StageText(converted, server_id), StageOffset(list, k), list[k])

\* C2: the stage list holds the Ping stage iff the text holds
\* stage('Ping Artifactory'), the Upload stage iff it holds server.upload and
\* the Publish stage iff it holds publishBuildInfo, wherever they stand; a
\* listed stage stands in the document.
C2_StageGates ==
    Converted =>
        /\ HasStage(stages, "Ping Artifactory")
              <=> Contains(content, "stage('Ping Artifactory')")
        /\ HasStage(stages, "Upload Artifact") <=> Contains(content, "server.upload")
        /\ HasStage(stages, "Publish Build Info")
              <=> Contains(content, "publishBuildInfo")
        /\ \A k \in 1..Len(stages) : InDocument(stages, k)

\* Ping and Publish without Upload, the Publish marker standing first
C2_Witness ==
    /\ Converted
    /\ find(content, "publishBuildInfo", 1) # 0
    /\ find(content, "publishBuildInfo", 1) < find(content, "stage('Ping Artifactory')", 1)
    /\ ~Contains(content, "server.upload")
    /\ StageNames(stages)
          = <<"Configure JFrog Server", "Ping Artifactory", "Publish Build Info">>

StageRank(name) ==
    CASE name = "Configure JFrog Server" -> 1
      [] name = "Ping Artifactory" -> 2
      [] name = "Upload Artifact" -> 3
      [] name = "Publish Build Info" -> 4
      [] OTHER -> 0

\* C3: the stages of the list are among the four known ones, in the order
\* Configure, Ping, Upload, Publish, each at most once, and the document
\* holds the blocks of the list in list order.
C3_FixedOrder ==
    Converted =>
        LET N == StageNames(stages)
        IN  /\ \A k \in 1..Len(N) : StageRank(N[k]) > 0
            /\ \A k \in 2..Len(N) : StageRank(N[k - 1]) < StageRank(N[k])
            /\ StageText(converted, server_id) = join("\n", stages)

\* the markers stand in the text in the reverse of the output order
C3_Witness ==
    /\ Converted
    /\ find(content, "publishBuildInfo", 1) # 0
    /\ find(content, "publishBuildInfo", 1) < find(content, "server.upload", 1)
    /\ find(content, "server.upload", 1) < find(content, "stage('Ping Artifactory')", 1)
    /\ StageNames(stages) = <<"Configure JFrog Server", "Ping Artifactory",
                              "Upload Artifact", "Publish Build Info">>

\* C4: exactly one Configure stage, the first of the list, carrying the
\* extracted server id in 'config add' and in 'c use', the url and user
\* arguments and the credential placeholder.
C4_ConfigureAlwaysFirst ==
    Converted =>
        /\ Len(stages) >= 1
        /\ {k \in 1..Len(stages) : StageName(stages[k]) = "Configure JFrog Server"} = {1}
        /\ server_id = extract_server_id(content)
        /\ Contains(stages[1],
              "jf 'config add " \o server_id \o " --url=" \o DefaultServerUrl
                 \o " --user=" \o DefaultServerUser \o " --password=YOUR_PASSWORD ")
        /\ Contains(stages[1], "jf 'c use " \o server_id \o "'\n")
        /\ Contains(convert_pipeline(content, "https://u", "me").stages[1],
              "jf 'config add " \o server_id
                 \o " --url=https://u --user=me --password=YOUR_PASSWORD ")
        /\ InDocument(stages, 1)

\* the empty input: fallback server id and the Configure stage alone
C4_Witness ==
    /\ Converted
    /\ content = ""
    /\ server_id = "ecosysjfrog"
    /\ StageNames(stages) = <<"Configure JFrog Server">>

SetupMarker == "stage('Setup Artifactory')"

\* texts that differ from t in the Setup marker
SetupTwins(t) == {t \o SetupMarker, SetupMarker \o t, replace(t, SetupMarker, "")}

SameButSetup(r) ==
    /\ r.server_id = server_id
    /\ r.upload_pattern = upload_pattern
    /\ r.upload_target = upload_target
    /\ r.has_ping = has_ping
    /\ r.has_upload = has_upload
    /\ r.has_publish = has_publish
    /\ r.has_setup # has_setup

\* C5: no Setup stage is ever in the list, and a text that differs only in
\* holding the Setup marker gives the same document.
C5_SetupNeverEmitted ==
    Converted =>
        /\ ~HasStage(stages, "Setup Artifactory")
        /\ \A t \in SetupTwins(content) :
              \A r \in {convert_pipeline(t, DefaultServerUrl, DefaultServerUser)} :
                  SameButSetup(r) => r.converted = converted

C5_Witness ==
    /\ Converted
    /\ has_setup
    /\ has_ping
    /\ \E t \in SetupTwins(content) :
          SameButSetup(convert_pipeline(t, DefaultServerUrl, DefaultServerUser))

----------------------------------------------------------------------------
(* Claims about the extractors: the patterns stated as relations *)

AllSpaces(t, a, b) == \A k \in a..b : IsSpace(Char(t, k))

NoneOf(t, a, b, stop) == \A k \in a..b : Char(t, k) \notin stop

\* the values v such that  literal ws punct ws quote v quote  stands at i,
\* ws runs of white space, v non-empty and free of the quote characters
CapturesAt(t, i, literal, punct, quotes) ==
    IF ~StartsWithAt(t, i, literal) THEN {}
    ELSE LET a == i + Len(literal)
         IN  UNION { UNION { { SubSeq(t, c + 1, c + n) :
                                 n \in {n \in 1..(Len(t) - c - 1) :
                                           /\ NoneOf(t, c + 1, c + n, quotes)
                                           /\ Char(t, c + n + 1) \in quotes} } :
                             c \in {c \in (b + 1)..(Len(t) - 2) :
                                       /\ AllSpaces(t, b + 1, c - 1)
                                       /\ Char(t, c) \in quotes} } :
                     b \in {b \in a..(Len(t) - 3) :
                               /\ AllSpaces(t, a, b - 1)
                               /\ Char(t, b) = punct} }

\* v is the capture of the first occurrence of the pattern, or the fallback
FirstCaptureOr(t, v, literal, punct, quotes, fallback) ==
    LET I == {i \in 1..Len(t) : CapturesAt(t, i, literal, punct, quotes) # {}}
    IN  IF I = {} THEN v = fallback
        ELSE v \in CapturesAt(t, CHOOSE i \in I : \A j \in I : i <= j,
                              literal, punct, quotes)

\* C6: each extracted field is a non-empty string, the capture of the first
\* occurrence of its pattern or else its own fallback literal.
C6_TotalDefaultedExtraction ==
    Converted =>
        /\ server_id # "" /\ upload_pattern # "" /\ upload_target # ""
        /\ FirstCaptureOr(content, server_id, "Artifactory.server", "(",
                          {"'", "\""}, "ecosysjfrog")
        /\ FirstCaptureOr(content, upload_pattern, "\"pattern\"", ":", {"\""}, "*.txt")
        /\ FirstCaptureOr(content, upload_target, "\"target\"", ":", {"\""}, "repo/")

\* a pattern is captured while the target falls back, after a first target
\* fragment that does not match
C6_Witness ==
    /\ Converted
    /\ content = "\"target\": \"" \o "\"pattern\":\"a.jar\""
    /\ upload_pattern = "a.jar"
    /\ upload_target = "repo/"

----------------------------------------------------------------------------
(* The line the document and the closing message name *)

DocumentedPasswordLine == 24

\* 1-based number of the line that holds position i of doc
LineOf(doc, i) == 1 + Cardinality({k \in 1..(i - 1) : Char(doc, k) = "\n"})

\* C10: the 'jf config add' command with the credential placeholder is on the
\* line of the document that its TODO comment and the closing message name.
C10_PasswordOnDocumentedLine ==
    Converted =>
        LET i == FirstOfAny(converted, {"--password=YOUR_PASSWORD"}, 1)
        IN  /\ i # 0
            /\ LineOf(converted, i) = DocumentedPasswordLine
            /\ Contains(converted, "// TODO: Replace YOUR_PASSWORD on line 24 ")

====
